---- MODULE Spec2Model ----
(***************************************************************************)
(* Spin population models of gwpopulation/models/spin.py.                  *)
(*                                                                         *)
(* Floats are fixed-point integers scaled by SCALE, with three special     *)
(* values (NaN, +Inf, -Inf).  Arrays are records [shape, data] with the    *)
(* data in row-major order; they live in a heap and are named by address,  *)
(* so that an in-place multiply or divide writes the array object it is    *)
(* applied to and aliasing is visible.                                     *)
(***************************************************************************)
EXTENDS Integers, Sequences, FiniteSets, TLC

----------------------------------------------------------------------------
(* Bounds of the model *)

SCALE == 100
DataLen == 2
NumThreads == 2
NQuad == 4

(* Program constants *)

NChiEff == 100
NChiP == 50

----------------------------------------------------------------------------
(* Floating-point values *)

PInf == SCALE * SCALE * SCALE * 1000
NInf == -PInf
NaN == 2 * PInf

One == SCALE
Two == 2 * SCALE
Four == 4 * SCALE

IsNaN(a) == a = NaN
IsInf(a) == a = PInf \/ a = NInf
Sgn(a) == IF a > 0 /\ a # NaN THEN 1 ELSE IF a < 0 THEN -1 ELSE 0
Abs(a) == IF a < 0 THEN -a ELSE a
IDiv(n, d) == Sgn(n) * Sgn(d) * (Abs(n) \div Abs(d))
Clamp(v) == IF v >= PInf THEN PInf ELSE IF v <= NInf THEN NInf ELSE v
SInf(s) == IF s > 0 THEN PInf ELSE NInf

FNeg(a) == IF IsNaN(a) THEN NaN ELSE -a

FAdd(a, b) ==
    IF IsNaN(a) \/ IsNaN(b) THEN NaN
    ELSE IF IsInf(a) /\ IsInf(b) THEN (IF a = b THEN a ELSE NaN)
    ELSE IF IsInf(a) THEN a
    ELSE IF IsInf(b) THEN b
    ELSE Clamp(a + b)

FSub(a, b) == FAdd(a, FNeg(b))

FMul(a, b) ==
    IF IsNaN(a) \/ IsNaN(b) THEN NaN
    ELSE IF IsInf(a) \/ IsInf(b)
         THEN (IF a = 0 \/ b = 0 THEN NaN ELSE SInf(Sgn(a) * Sgn(b)))
    ELSE IF Abs(a) > PInf \div (Abs(b) + 1) THEN SInf(Sgn(a) * Sgn(b))
    ELSE IDiv(a * b, SCALE)

FDiv(a, b) ==
    IF IsNaN(a) \/ IsNaN(b) THEN NaN
    ELSE IF IsInf(a) /\ IsInf(b) THEN NaN
    ELSE IF IsInf(a) THEN (IF b < 0 THEN FNeg(a) ELSE a)
    ELSE IF IsInf(b) THEN 0
    ELSE IF b = 0 THEN (IF a = 0 THEN NaN ELSE SInf(Sgn(a)))
    ELSE IF Abs(a) > PInf \div SCALE THEN SInf(Sgn(a) * Sgn(b))
    ELSE IDiv(a * SCALE, b)

(* exp: 1 + z + z^2/2 for z >= 0 and its reciprocal form for z < 0 *)
FExp(z) ==
    IF IsNaN(z) THEN NaN
    ELSE IF z = PInf THEN PInf
    ELSE IF z = NInf THEN 0
    ELSE IF z >= 0 THEN FAdd(FAdd(One, z), FDiv(FMul(z, z), Two))
    ELSE FDiv(One, FAdd(FAdd(One, -z), FDiv(FMul(z, z), Two)))

RECURSIVE FPowN(_, _)
FPowN(u, n) == IF n <= 0 THEN One ELSE FMul(u, FPowN(u, n - 1))

(* u ** e for an integer-valued exponent e *)
FPow(u, e) ==
    IF IsNaN(u) \/ IsNaN(e) THEN NaN
    ELSE IF e >= 0 THEN FPowN(u, e \div SCALE)
    ELSE FDiv(One, FPowN(u, (-e) \div SCALE))

RECURSIVE Fact(_)
Fact(n) == IF n <= 1 THEN 1 ELSE n * Fact(n - 1)

----------------------------------------------------------------------------
(* Arrays *)

\* F of the value of v, v being evaluated once
Bind(v, F(_)) == CHOOSE y \in {F(x) : x \in {v}} : TRUE

Scalar(v) == [shape |-> <<>>, data |-> <<v>>]
Vec(s) == [shape |-> <<Len(s)>>, data |-> s]
None == [shape |-> <<>>, data |-> <<>>]

IsScalar(A) == A.shape = <<>>
Size(A) == Len(A.data)
LastAxis(A) == A.shape[Len(A.shape)]

Map1(F(_), A) == [shape |-> A.shape, data |-> [k \in DOMAIN A.data |-> F(A.data[k])]]

(* elementwise binary operation, a scalar operand being broadcast *)
Map2(F(_, _), A, B) ==
    IF IsScalar(A) /\ ~IsScalar(B)
    THEN [shape |-> B.shape, data |-> [k \in DOMAIN B.data |-> F(A.data[1], B.data[k])]]
    ELSE IF IsScalar(B) /\ ~IsScalar(A)
    THEN [shape |-> A.shape, data |-> [k \in DOMAIN A.data |-> F(A.data[k], B.data[1])]]
    ELSE [shape |-> A.shape, data |-> [k \in DOMAIN A.data |-> F(A.data[k], B.data[k])]]

Mul(A, B) == Map2(FMul, A, B)
Div(A, B) == Map2(FDiv, A, B)
Add(A, B) == Map2(FAdd, A, B)

----------------------------------------------------------------------------
\* Density primitives (gwpopulation.utils) and array backend (xp).  spin.py
\* names xp without importing it; xp is taken here as bound to the backend.

GaussKernel(x, mu, sigma) ==
    FExp(FNeg(FDiv(FMul(FSub(x, mu), FSub(x, mu)), FMul(Two, FMul(sigma, sigma)))))

RECURSIVE QuadSum(_, _, _, _, _)
QuadSum(k, mu, sigma, low, h) ==
    IF k >= NQuad THEN 0
    ELSE FAdd(FMul(h, FDiv(FAdd(GaussKernel(low + k * h, mu, sigma),
                                GaussKernel(low + (k + 1) * h, mu, sigma)), Two)),
              QuadSum(k + 1, mu, sigma, low, h))

\* the integral of the Gaussian kernel over [low, high]
TruncNormalization(mu, sigma, low, high) ==
    QuadSum(0, mu, sigma, low, IDiv(high - low, NQuad))

\* Gaussian density of mean mu and width sigma, truncated and renormalized to
\* [low, high]: zero outside the support
TruncAt(x, mu, sigma, low, high) ==
    IF x < low \/ x > high THEN 0
    ELSE FDiv(GaussKernel(x, mu, sigma), TruncNormalization(mu, sigma, low, high))

truncnorm(xx, mu, sigma, low, high) ==
    Map1(LAMBDA x : TruncAt(x, mu, sigma, low, high), xx)

\* 1 / B(alpha, beta) for integer-valued positive alpha, beta
InvBeta(alpha, beta) ==
    LET a == alpha \div SCALE
        b == beta \div SCALE
    IN  IDiv(One * Fact(a + b - 1), Fact(a - 1) * Fact(b - 1))

\* Beta density rescaled to the support [0, scale]; not a number for shape
\* parameters that are not positive
BetaAt(x, alpha, beta, scale) ==
    IF alpha <= 0 \/ beta <= 0 THEN NaN
    ELSE IF x < 0 \/ x > scale THEN 0
    ELSE LET u == FDiv(x, scale)
         IN  FDiv(FMul(FMul(FPow(u, alpha - One), FPow(FSub(One, u), beta - One)),
                       InvBeta(alpha, beta)),
                  scale)

beta_dist(xx, alpha, beta, scale) ==
    Map1(LAMBDA x : BetaAt(x, alpha, beta, scale), xx)

\* n evenly spaced points over [lo, hi]
linspace(lo, hi, n) ==
    Vec([i \in 1..n |-> lo + IDiv((i - 1) * (hi - lo), n - 1)])

\* the two coordinate matrices of the outer-product grid: Len(y) rows of Len(x)
\* columns
meshgrid(x, y) ==
    LET c == Size(x)
        r == Size(y)
    IN  << [shape |-> <<r, c>>,
            data |-> [k \in 1..(r * c) |-> x.data[((k - 1) % c) + 1]]],
           [shape |-> <<r, c>>,
            data |-> [k \in 1..(r * c) |-> y.data[((k - 1) \div c) + 1]]] >>

RECURSIVE RowTrapz(_, _, _, _)
RowTrapz(y, x, off, i) ==
    IF i < 1 THEN 0
    ELSE FAdd(FDiv(FMul(FSub(x[i + 1], x[i]), FAdd(y[off + i + 1], y[off + i])), Two),
              RowTrapz(y, x, off, i - 1))

\* whether the trapezoidal rule along the last axis of an array of shape
\* yshape is defined for the abscissa x: x is a sequence as long as that axis
TrapzDefined(yshape, x) ==
    /\ Len(yshape) >= 1
    /\ Len(x.shape) = 1
    /\ x.shape[1] = yshape[Len(yshape)]

\* trapezoidal rule along the last axis of the array of shape yshape and data
\* ydata, with abscissa x; the call raises when the rule is not defined
trapz(yshape, ydata, x) ==
    IF ~TrapzDefined(yshape, x) THEN [raised |-> TRUE, val |-> None]
    ELSE LET c == yshape[Len(yshape)]
             r == IF Len(yshape) = 1 THEN 1 ELSE yshape[1]
         IN  [raised |-> FALSE,
              val |-> [shape |-> SubSeq(yshape, 1, Len(yshape) - 1),
                       data |-> [j \in 1..r |-> RowTrapz(ydata, x.data, (j - 1) * c, c - 1)]]]

----------------------------------------------------------------------------
\* State

VARIABLES heap, self, frame

vars == <<heap, self, frame>>

Threads == 1..NumThreads
Main == 1

Keys == {"a_1", "a_2", "cos_tilt_1", "cos_tilt_2", "chi_eff", "chi_p"}
Attrs == {"chi_eff", "chi_p", "chi_eff_grid", "chi_p_grid"}
Locals == {"prob"}

Null == <<"null", 0, "">>
DsAddr(k) == <<"ds", 0, k>>
SelfAddr(a) == <<"self", 0, a>>
Tmp(t, n) == <<"tmp", t, n>>

Addrs == {DsAddr(k) : k \in Keys} \cup {SelfAddr(a) : a \in Attrs}
         \cup {Tmp(t, n) : t \in Threads, n \in Locals}

\* the caller's dataset: a mapping from keys to the arrays it holds
dataset == [k \in Keys |-> DsAddr(k)]

Frac(n, d) == IDiv(n * SCALE, d)

\* observations the datasets are drawn from
Events ==
    << [a_1 |-> Frac(1, 2), a_2 |-> Frac(3, 10), cos_tilt_1 |-> One, cos_tilt_2 |-> One,
        chi_eff |-> 0, chi_p |-> Frac(1, 2)],
       [a_1 |-> Frac(4, 5), a_2 |-> Frac(1, 10), cos_tilt_1 |-> -Frac(1, 2),
        cos_tilt_2 |-> Frac(1, 5), chi_eff |-> -Frac(3, 5), chi_p |-> Frac(1, 10)] >>

DatasetValue(pick) ==
    [k \in Keys |-> Vec([i \in 1..DataLen |-> Events[pick[i]][k]])]

NoInstance ==
    [chi_eff |-> Null, chi_p |-> Null, chi_eff_grid |-> Null, chi_p_grid |-> Null,
     normalization_data |-> [chi_eff |-> Null, chi_p |-> Null]]

NoRet == [kind |-> "none", val |-> None]
Idle == [pc |-> "idle", fn |-> "", args |-> <<>>, prob |-> Null, ret |-> NoRet,
         trace |-> <<>>, integ |-> <<>>]

Init ==
    /\ \E pick \in [1..DataLen -> 1..Len(Events)] :
          heap = [a \in Addrs |-> IF a[1] = "ds" THEN DatasetValue(pick)[a[3]] ELSE None]
    /\ self = NoInstance
    /\ frame = [t \in Threads |-> Idle]

----------------------------------------------------------------------------
\* Hyper-parameter values the calls are made with

Xis == {0, Frac(1, 2), One}
Sigmas == {Frac(1, 2), One}
Amaxs == {Frac(1, 2), One}
Shapes == {-One, One, Two}
Mus == {0, Frac(1, 2)}
Covariances == {0, Frac(1, 2), One, Two}

Entry(fn, args) == [fn |-> fn, args |-> args]

----------------------------------------------------------------------------
\* Module functions.  Each yields the value it returns and the calls made
\* while computing it.

\* the check without beta_chi_2
InvalidShapeThree(alpha_chi_1, beta_chi_1, alpha_chi_2, beta_chi_2) ==
    alpha_chi_1 < 0 \/ beta_chi_1 < 0 \/ alpha_chi_2 < 0

InvalidShape(alpha_chi_1, beta_chi_1, alpha_chi_2, beta_chi_2) ==
    alpha_chi_1 < 0 \/ beta_chi_1 < 0 \/ alpha_chi_2 < 0 \/ beta_chi_2 < 0

independent_spin_magnitude_beta(h, d, alpha_chi_1, alpha_chi_2, beta_chi_1, beta_chi_2, amax_1, amax_2) ==
    IF InvalidShape(alpha_chi_1, beta_chi_1, alpha_chi_2, beta_chi_2)
    THEN [val |-> Scalar(0), trace |-> <<>>]
    ELSE [val |-> Mul(beta_dist(h[d["a_1"]], alpha_chi_1, beta_chi_1, amax_1),
                      beta_dist(h[d["a_2"]], alpha_chi_2, beta_chi_2, amax_2)),
          trace |-> << Entry("beta_dist", <<alpha_chi_1, beta_chi_1, amax_1>>),
                       Entry("beta_dist", <<alpha_chi_2, beta_chi_2, amax_2>>) >>]

\* the shape parameters handed over in the order alpha, beta, alpha, beta
iid_spin_magnitude_beta_interleaved(h, d, amax, alpha_chi, beta_chi) ==
    LET out == independent_spin_magnitude_beta(h, d, alpha_chi, beta_chi, alpha_chi,
                                               beta_chi, amax, amax)
    IN  [val |-> out.val,
         trace |-> << Entry("independent_spin_magnitude_beta",
                            <<alpha_chi, beta_chi, alpha_chi, beta_chi, amax, amax>>) >>
                   \o out.trace]

iid_spin_magnitude_beta(h, d, amax, alpha_chi, beta_chi) ==
    LET out == independent_spin_magnitude_beta(h, d, alpha_chi, alpha_chi, beta_chi,
                                               beta_chi, amax, amax)
    IN  [val |-> out.val,
         trace |-> << Entry("independent_spin_magnitude_beta",
                            <<alpha_chi, alpha_chi, beta_chi, beta_chi, amax, amax>>) >>
                   \o out.trace]

independent_spin_orientation_gaussian_isotropic(h, d, xi_spin, sigma_1, sigma_2) ==
    [val |-> Add(Scalar(FDiv(FSub(One, xi_spin), Four)),
                 Mul(Mul(Scalar(xi_spin),
                         truncnorm(h[d["cos_tilt_1"]], One, sigma_1, One, -One)),
                     truncnorm(h[d["cos_tilt_2"]], One, sigma_2, One, -One))),
     trace |-> << Entry("truncnorm", <<One, sigma_1, One, -One>>),
                  Entry("truncnorm", <<One, sigma_2, One, -One>>) >>]

iid_spin_orientation_gaussian_isotropic(h, d, xi_spin, sigma_spin) ==
    LET out == independent_spin_orientation_gaussian_isotropic(h, d, xi_spin, sigma_spin,
                                                               sigma_spin)
    IN  [val |-> out.val,
         trace |-> << Entry("independent_spin_orientation_gaussian_isotropic",
                            <<xi_spin, sigma_spin, sigma_spin>>) >> \o out.trace]

\* the magnitude model called with alpha_chi, beta_chi, amax in that order
iid_spin_misordered(h, d, xi_spin, sigma_spin, amax, alpha_chi, beta_chi) ==
    LET o == iid_spin_orientation_gaussian_isotropic(h, d, xi_spin, sigma_spin)
        m == iid_spin_magnitude_beta(h, d, alpha_chi, beta_chi, amax)
    IN  [val |-> Mul(o.val, m.val),
         trace |-> << Entry("iid_spin_orientation_gaussian_isotropic",
                            <<xi_spin, sigma_spin>>) >> \o o.trace
                   \o << Entry("iid_spin_magnitude_beta", <<alpha_chi, beta_chi, amax>>) >>
                   \o m.trace]

iid_spin(h, d, xi_spin, sigma_spin, amax, alpha_chi, beta_chi) ==
    LET o == iid_spin_orientation_gaussian_isotropic(h, d, xi_spin, sigma_spin)
        m == iid_spin_magnitude_beta(h, d, amax, alpha_chi, beta_chi)
    IN  [val |-> Mul(o.val, m.val),
         trace |-> << Entry("iid_spin_orientation_gaussian_isotropic",
                            <<xi_spin, sigma_spin>>) >> \o o.trace
                   \o << Entry("iid_spin_magnitude_beta", <<amax, alpha_chi, beta_chi>>) >>
                   \o m.trace]

gaussian_chi_eff(h, d, mu_chi_eff, sigma_chi_eff) ==
    [val |-> truncnorm(h[d["chi_eff"]], mu_chi_eff, sigma_chi_eff, -One, One),
     trace |-> << Entry("truncnorm", <<mu_chi_eff, sigma_chi_eff, -One, One>>) >>]

gaussian_chi_p(h, d, mu_chi_p, sigma_chi_p) ==
    [val |-> truncnorm(h[d["chi_p"]], mu_chi_p, sigma_chi_p, 0, One),
     trace |-> << Entry("truncnorm", <<mu_chi_p, sigma_chi_p, 0, One>>) >>]

----------------------------------------------------------------------------
\* GaussianChiEffChiP

\* axes of the stored grid, first to last: meshgrid(chi_eff, chi_p) has one
\* row per chi_p point and one column per chi_eff point
GridAxes == <<"chi_p", "chi_eff">>

Constructed == self # NoInstance

\* the residual computed in place, in the array at src
ResidualInPlace(src) == src

\* where the array of a residual expression over the array at src lives: a
\* new array, which no one holds once _2d_probability has returned
ResidualAddr(src) == Null

EffResidual(x, mu_chi_eff, sigma_chi_eff) == FMul(FSub(mu_chi_eff, x), sigma_chi_eff)
PResidual(y, mu_chi_p, sigma_chi_p) == FMul(FSub(mu_chi_p, y), sigma_chi_p)

Determinant(sigma_chi_eff, sigma_chi_p, spin_covariance) ==
    FMul(FMul(FMul(sigma_chi_eff, sigma_chi_eff), FMul(sigma_chi_p, sigma_chi_p)),
         FSub(One, spin_covariance))

Exp2d(chi_eff_residual, chi_p_resiudal, spin_covariance, determinant) ==
    FExp(FDiv(FDiv(FNeg(FSub(FAdd(FMul(chi_eff_residual, chi_eff_residual),
                                  FMul(chi_p_resiudal, chi_p_resiudal)),
                             FMul(FMul(FMul(Two, chi_eff_residual), chi_p_resiudal),
                                  spin_covariance))),
                   Two),
              determinant))

\* one element of the array _2d_probability returns
Prob2dAt(x, y, a) ==
    Exp2d(EffResidual(x, a[1], a[2]), PResidual(y, a[3], a[4]), a[5],
          Determinant(a[2], a[4], a[5]))

\* the array _2d_probability returns for the arrays data names
Prob2d(h, data, a) ==
    Map2(LAMBDA x, y : Prob2dAt(x, y, a), h[data["chi_eff"]], h[data["chi_p"]])

\* the heap once _2d_probability has returned
Prob2dHeap(h, data, a) ==
    [ad \in DOMAIN h |->
        IF ad = ResidualAddr(data["chi_eff"])
        THEN Map1(LAMBDA x : EffResidual(x, a[1], a[2]), h[data["chi_eff"]])
        ELSE IF ad = ResidualAddr(data["chi_p"])
        THEN Map1(LAMBDA y : PResidual(y, a[3], a[4]), h[data["chi_p"]])
        ELSE h[ad]]

\* abscissa of the inner and of the outer integration
InnerAbscissa == "chi_p"
OuterAbscissa == "chi_eff"

Integration(yshape, axis, x, xarr) ==
    [axis |-> axis, axis_len |-> yshape[Len(yshape)], x |-> x, x_len |-> Size(xarr)]

\* _normalization: the heap it leaves, whether it raised, the constant it
\* returns, and the integrations it asked for
Normalization(h, s, a) ==
    Bind(Prob2dHeap(h, s.normalization_data, a), LAMBDA h1 :
    Bind(h[s.normalization_data["chi_eff"]].shape, LAMBDA pshape :
    Bind(trapz(pshape, Prob2d(h, s.normalization_data, a).data, h1[s[InnerAbscissa]]),
         LAMBDA inner :
    Bind(Integration(pshape, GridAxes[2], InnerAbscissa, h1[s[InnerAbscissa]]), LAMBDA i1 :
        IF inner.raised
        THEN [h |-> h1, raised |-> TRUE, val |-> None, integ |-> <<i1>>]
        ELSE Bind(trapz(inner.val.shape, inner.val.data, h1[s[OuterAbscissa]]),
                  LAMBDA outer :
                    [h |-> h1, raised |-> outer.raised, val |-> outer.val,
                     integ |-> <<i1, Integration(inner.val.shape, GridAxes[1], OuterAbscissa,
                                                 h1[s[OuterAbscissa]])>>])))))

\* the locals of thread t's call are dropped
Free(h, t) ==
    [ad \in DOMAIN h |-> IF ad[1] = "tmp" /\ ad[2] = t THEN None ELSE h[ad]]

\* __call__ is entered with arguments a
Enter(a) ==
    [pc |-> "call", fn |-> "GaussianChiEffChiP.__call__", args |-> a, prob |-> Null,
     ret |-> NoRet, trace |-> <<>>, integ |-> <<>>]

\* the density written into the dataset's own chi_eff array
StepEffAlias(h, f, t) ==
    Bind(gaussian_chi_eff(h, dataset, f.args[1], f.args[2]), LAMBDA out :
        [h |-> [h EXCEPT ![dataset["chi_eff"]] = out.val],
         f |-> [f EXCEPT !.pc = "zero_p", !.prob = dataset["chi_eff"],
                         !.trace = @ \o << Entry("gaussian_chi_eff", <<f.args[1], f.args[2]>>) >>
                                     \o out.trace]])

\* prob = gaussian_chi_eff(...)
StepEff(h, f, t) ==
    Bind(gaussian_chi_eff(h, dataset, f.args[1], f.args[2]), LAMBDA out :
        [h |-> [h EXCEPT ![Tmp(t, "prob")] = out.val],
         f |-> [f EXCEPT !.pc = "zero_p", !.prob = Tmp(t, "prob"),
                         !.trace = @ \o << Entry("gaussian_chi_eff", <<f.args[1], f.args[2]>>) >>
                                     \o out.trace]])

\* prob = gaussian_chi_p(...) in place of prob *= gaussian_chi_p(...)
StepPAssign(h, f, t) ==
    Bind(gaussian_chi_p(h, dataset, f.args[3], f.args[4]), LAMBDA out :
    Bind([h EXCEPT ![f.prob] = out.val], LAMBDA h1 :
        [h |-> Free(h1, t),
         f |-> [f EXCEPT !.pc = "returned", !.prob = Null,
                         !.ret = [kind |-> "value", val |-> h1[f.prob]],
                         !.trace = @ \o << Entry("gaussian_chi_p", <<f.args[3], f.args[4]>>) >>
                                     \o out.trace]]))

\* prob *= gaussian_chi_p(...); return prob
StepP(h, f, t) ==
    Bind(gaussian_chi_p(h, dataset, f.args[3], f.args[4]), LAMBDA out :
    Bind([h EXCEPT ![f.prob] = Mul(h[f.prob], out.val)], LAMBDA h1 :
        [h |-> Free(h1, t),
         f |-> [f EXCEPT !.pc = "returned", !.prob = Null,
                         !.ret = [kind |-> "value", val |-> h1[f.prob]],
                         !.trace = @ \o << Entry("gaussian_chi_p", <<f.args[3], f.args[4]>>) >>
                                     \o out.trace]]))

\* prob = self._2d_probability(dataset, ...)
Step2d(h, f, t) ==
    Bind(Prob2dHeap(h, dataset, f.args), LAMBDA h1 :
        [h |-> [h1 EXCEPT ![Tmp(t, "prob")] = Prob2d(h, dataset, f.args)],
         f |-> [f EXCEPT !.pc = "nz_norm", !.prob = Tmp(t, "prob"),
                         !.trace = @ \o << Entry("_2d_probability", f.args) >>]])

NormTrace(f) ==
    f.trace \o << Entry("_normalization", f.args), Entry("_2d_probability", f.args) >>

\* normalization = self._normalization(...); prob /= normalization; return prob
StepNorm(h, s, f, t) ==
    Bind(Normalization(h, s, f.args), LAMBDA n :
        IF n.raised
        THEN [h |-> Free(n.h, t),
              f |-> [f EXCEPT !.pc = "raised", !.prob = Null,
                              !.ret = [kind |-> "raise", val |-> None],
                              !.trace = NormTrace(f), !.integ = n.integ]]
        ELSE Bind([n.h EXCEPT ![f.prob] = Div(n.h[f.prob], n.val)], LAMBDA h1 :
                  [h |-> Free(h1, t),
                   f |-> [f EXCEPT !.pc = "returned", !.prob = Null,
                                   !.ret = [kind |-> "value", val |-> h1[f.prob]],
                                   !.trace = NormTrace(f), !.integ = n.integ]]))

\* a whole call of __call__ with arguments a
Run(h, s, t, a) ==
    IF a[5] = 0
    THEN Bind(StepEff(h, Enter(a), t), LAMBDA m : StepP(m.h, m.f, t))
    ELSE Bind(Step2d(h, Enter(a), t), LAMBDA m : StepNorm(m.h, s, m.f, t))

EvalArgs == {<<me, se, mp, sp, c>> : me \in Mus, se \in Sigmas, mp \in {Frac(1, 5)},
                                      sp \in {One}, c \in Covariances}

----------------------------------------------------------------------------
\* Actions of the sequential specification: one caller, whole calls

Returned(fn, args, out) ==
    [pc |-> "returned", fn |-> fn, args |-> args, prob |-> Null,
     ret |-> [kind |-> "value", val |-> out.val], trace |-> out.trace, integ |-> <<>>]

Done(fn, args, out) ==
    /\ frame' = [frame EXCEPT ![Main] = Returned(fn, args, out)]
    /\ UNCHANGED <<heap, self>>

Call_iid_spin ==
    \E xi \in Xis \ {0}, sg \in {Frac(1, 2)}, am \in Amaxs, al \in Shapes, be \in {-One, Two} :
        Done("iid_spin", <<xi, sg, am, al, be>>, iid_spin(heap, dataset, xi, sg, am, al, be))

Call_iid_spin_magnitude_beta ==
    \E am \in Amaxs, al \in Shapes, be \in {-One, Two} :
        Done("iid_spin_magnitude_beta", <<am, al, be>>,
             iid_spin_magnitude_beta(heap, dataset, am, al, be))

Call_independent_spin_magnitude_beta ==
    \E a1 \in Shapes, a2 \in {-One, One}, b1 \in {-One, Two}, b2 \in {-One, One},
       m1 \in {One}, m2 \in {Frac(1, 2)} :
        Done("independent_spin_magnitude_beta", <<a1, a2, b1, b2, m1, m2>>,
             independent_spin_magnitude_beta(heap, dataset, a1, a2, b1, b2, m1, m2))

Call_iid_spin_orientation_gaussian_isotropic ==
    \E xi \in Xis, sg \in Sigmas :
        Done("iid_spin_orientation_gaussian_isotropic", <<xi, sg>>,
             iid_spin_orientation_gaussian_isotropic(heap, dataset, xi, sg))

Call_independent_spin_orientation_gaussian_isotropic ==
    \E xi \in Xis, s1 \in Sigmas, s2 \in Sigmas :
        Done("independent_spin_orientation_gaussian_isotropic", <<xi, s1, s2>>,
             independent_spin_orientation_gaussian_isotropic(heap, dataset, xi, s1, s2))

Call_gaussian_chi_eff ==
    \E mu \in Mus, sg \in Sigmas :
        Done("gaussian_chi_eff", <<mu, sg>>, gaussian_chi_eff(heap, dataset, mu, sg))

Call_gaussian_chi_p ==
    \E mu \in Mus, sg \in Sigmas :
        Done("gaussian_chi_p", <<mu, sg>>, gaussian_chi_p(heap, dataset, mu, sg))

\* the instance __init__ leaves: its attributes and the arrays they hold
Instance ==
    [chi_eff |-> SelfAddr("chi_eff"), chi_p |-> SelfAddr("chi_p"),
     chi_eff_grid |-> SelfAddr("chi_eff_grid"), chi_p_grid |-> SelfAddr("chi_p_grid"),
     normalization_data |-> [chi_eff |-> SelfAddr("chi_eff_grid"),
                             chi_p |-> SelfAddr("chi_p_grid")]]

InitHeap(h) ==
    Bind(linspace(-One, One, NChiEff), LAMBDA chi_eff :
    Bind(linspace(0, One, NChiP), LAMBDA chi_p :
    Bind(meshgrid(chi_eff, chi_p), LAMBDA grids :
        [h EXCEPT ![SelfAddr("chi_eff")] = chi_eff,
                  ![SelfAddr("chi_p")] = chi_p,
                  ![SelfAddr("chi_eff_grid")] = grids[1],
                  ![SelfAddr("chi_p_grid")] = grids[2]])))

\* GaussianChiEffChiP()
Construct ==
    /\ ~Constructed
    /\ heap' = InitHeap(heap)
    /\ self' = Instance
    /\ UNCHANGED frame

\* model(dataset, mu_chi_eff, sigma_chi_eff, mu_chi_p, sigma_chi_p, spin_covariance)
Evaluate ==
    /\ Constructed
    /\ \E a \in EvalArgs :
          \E m \in {Run(heap, self, Main, a)} :
              /\ heap' = m.h
              /\ frame' = [frame EXCEPT ![Main] = m.f]
    /\ UNCHANGED self

Next ==
    \/ Call_iid_spin
    \/ Call_iid_spin_magnitude_beta
    \/ Call_independent_spin_magnitude_beta
    \/ Call_iid_spin_orientation_gaussian_isotropic
    \/ Call_independent_spin_orientation_gaussian_isotropic
    \/ Call_gaussian_chi_eff
    \/ Call_gaussian_chi_p
    \/ Construct
    \/ Evaluate

Spec == Init /\ [][Next]_vars

----------------------------------------------------------------------------
\* Actions of the concurrent specification: threads that call one instance,
\* each call advancing one statement at a time

ConcArgs == {<<0, Frac(1, 2), Frac(1, 5), One, c>> : c \in {0, Frac(1, 2), One}}

InitConc ==
    /\ \E pick \in [1..DataLen -> 1..Len(Events)] :
          heap = InitHeap([a \in Addrs |->
                              IF a[1] = "ds" THEN DatasetValue(pick)[a[3]] ELSE None])
    /\ self = Instance
    /\ frame = [t \in Threads |-> Idle]

Advance(t, step) ==
    \E m \in {step} :
        /\ heap' = m.h
        /\ frame' = [frame EXCEPT ![t] = m.f]
        /\ UNCHANGED self

TCall(t) ==
    /\ frame[t].pc \in {"idle", "returned", "raised"}
    /\ \E a \in ConcArgs : frame' = [frame EXCEPT ![t] = Enter(a)]
    /\ UNCHANGED <<heap, self>>

TZeroEff(t) ==
    /\ frame[t].pc = "call"
    /\ frame[t].args[5] = 0
    /\ Advance(t, StepEff(heap, frame[t], t))

TZeroP(t) ==
    /\ frame[t].pc = "zero_p"
    /\ Advance(t, StepP(heap, frame[t], t))

T2d(t) ==
    /\ frame[t].pc = "call"
    /\ frame[t].args[5] # 0
    /\ Advance(t, Step2d(heap, frame[t], t))

TNorm(t) ==
    /\ frame[t].pc = "nz_norm"
    /\ Advance(t, StepNorm(heap, self, frame[t], t))

NextConc ==
    \E t \in Threads :
        \/ TCall(t)
        \/ TZeroEff(t)
        \/ TZeroP(t)
        \/ T2d(t)
        \/ TNorm(t)

SpecConc == InitConc /\ [][NextConc]_vars

----------------------------------------------------------------------------
\* Properties

EvalFn == "GaussianChiEffChiP.__call__"
Finished(f) == f.pc \in {"returned", "raised"}
Names(f) == {f.trace[i].fn : i \in DOMAIN f.trace}
Value(v) == [kind |-> "value", val |-> v]

\* C1: with any of alpha_chi_1, alpha_chi_2, beta_chi_1, beta_chi_2 negative,
\* independent_spin_magnitude_beta returns exactly the scalar zero and has
\* made no call of the Beta density primitive.
C1_NegativeShapeGivesZero ==
    LET f == frame[Main]
    IN  (/\ f.fn = "independent_spin_magnitude_beta"
         /\ \E i \in 1..4 : f.args[i] < 0)
        => /\ f.ret = Value(Scalar(0))
           /\ "beta_dist" \notin Names(f)

C1_Witness ==
    LET f == frame[Main]
    IN  /\ f.fn = "independent_spin_magnitude_beta"
        /\ f.pc = "returned"
        /\ f.args[1] > 0 /\ f.args[2] > 0 /\ f.args[3] > 0 /\ f.args[4] < 0
        /\ f.ret = Value(Scalar(0))

\* C2: an evaluation of the correlated model with spin_covariance = 0 returns,
\* element by element, gaussian_chi_eff(dataset, mu_chi_eff, sigma_chi_eff)
\* times gaussian_chi_p(dataset, mu_chi_p, sigma_chi_p), and computes neither
\* the unnormalized bivariate form nor the grid normalization.
C2_ZeroCovarianceIsProduct ==
    LET f == frame[Main]
    IN  (f.fn = EvalFn /\ Finished(f) /\ f.args[5] = 0)
        => /\ f.ret.kind = "value"
           /\ f.ret.val.shape = heap[dataset["chi_eff"]].shape
           /\ \A i \in 1..DataLen :
                 f.ret.val.data[i] =
                     FMul(gaussian_chi_eff(heap, dataset, f.args[1], f.args[2]).val.data[i],
                          gaussian_chi_p(heap, dataset, f.args[3], f.args[4]).val.data[i])
           /\ Names(f) \cap {"_2d_probability", "_normalization"} = {}

C2_Witness ==
    LET f == frame[Main]
    IN  /\ f.fn = EvalFn /\ f.pc = "returned" /\ f.args[5] = 0
        /\ \A i \in 1..DataLen : f.ret.val.data[i] > 0
        /\ gaussian_chi_p(heap, dataset, f.args[3], f.args[4]).val.data[1] # One

\* C3: once the instance is constructed, its coordinate sequences (100 points
\* over [-1, 1], 50 points over [0, 1]) and the 2D grid built from them hold
\* the values construction gave them, whatever evaluations have been made.
C3_GridNeverChanges ==
    Constructed =>
        /\ self = Instance
        /\ heap[self.chi_eff] = linspace(-One, One, NChiEff)
        /\ heap[self.chi_p] = linspace(0, One, NChiP)
        /\ heap[self.chi_eff_grid]
             = meshgrid(linspace(-One, One, NChiEff), linspace(0, One, NChiP))[1]
        /\ heap[self.chi_p_grid]
             = meshgrid(linspace(-One, One, NChiEff), linspace(0, One, NChiP))[2]
        /\ heap[self.normalization_data["chi_eff"]].shape = <<NChiP, NChiEff>>

C3_Witness ==
    LET f == frame[Main]
    IN  /\ Constructed
        /\ f.fn = EvalFn /\ Finished(f) /\ f.args[5] # 0
        /\ "_normalization" \in Names(f)

\* C4: no call ends by raising; every call completes by returning a value.
C4_NoCallRaises ==
    \A t \in Threads : frame[t].pc # "raised" /\ frame[t].ret.kind # "raise"

\* C5: independent_spin_orientation_gaussian_isotropic returns, element by
\* element, (1 - xi_spin)/4 + xi_spin * T1 * T2 with T1, T2 the Gaussians of
\* mean 1 and widths sigma_1, sigma_2 truncated to the bounds low = -1, high = 1.
C5_OrientationMixture ==
    LET f == frame[Main]
    IN  f.fn = "independent_spin_orientation_gaussian_isotropic"
        => \A i \in 1..DataLen :
              f.ret.val.data[i] =
                  FAdd(FDiv(FSub(One, f.args[1]), Four),
                       FMul(FMul(f.args[1],
                                 TruncAt(heap[dataset["cos_tilt_1"]].data[i], One, f.args[2],
                                         -One, One)),
                            TruncAt(heap[dataset["cos_tilt_2"]].data[i], One, f.args[3],
                                    -One, One)))

\* C6: iid_spin(dataset, xi_spin, sigma_spin, amax, alpha_chi, beta_chi) is,
\* element by element, iid_spin_magnitude_beta(dataset, amax, alpha_chi,
\* beta_chi) times iid_spin_orientation_gaussian_isotropic(dataset, xi_spin,
\* sigma_spin), each sub-model being called with these very arguments.
C6_IidSpinIsProduct ==
    LET f == frame[Main]
    IN  f.fn = "iid_spin"
        => /\ f.ret = Value(Mul(iid_spin_magnitude_beta(heap, dataset, f.args[3], f.args[4],
                                                        f.args[5]).val,
                                iid_spin_orientation_gaussian_isotropic(heap, dataset,
                                                                        f.args[1],
                                                                        f.args[2]).val))
           /\ \E i \in DOMAIN f.trace :
                 f.trace[i] = Entry("iid_spin_magnitude_beta",
                                    <<f.args[3], f.args[4], f.args[5]>>)
           /\ \E i \in DOMAIN f.trace :
                 f.trace[i] = Entry("iid_spin_orientation_gaussian_isotropic",
                                    <<f.args[1], f.args[2]>>)

C6_Witness ==
    LET f == frame[Main]
    IN  /\ f.fn = "iid_spin" /\ f.pc = "returned"
        /\ f.args[4] > 0 /\ f.args[5] > 0 /\ f.args[3] # f.args[4]
        /\ \E i \in 1..DataLen : f.ret.val.data[i] > 0

\* C7: iid_spin_magnitude_beta(dataset, amax, alpha_chi, beta_chi) returns what
\* independent_spin_magnitude_beta returns for alpha_1 = alpha_2 = alpha_chi,
\* beta_1 = beta_2 = beta_chi, amax_1 = amax_2 = amax, and
\* iid_spin_orientation_gaussian_isotropic(dataset, xi_spin, sigma_spin) what
\* independent_spin_orientation_gaussian_isotropic returns for sigma_1 =
\* sigma_2 = sigma_spin.
C7_IidIsIndependentSpecialized ==
    LET f == frame[Main]
    IN  /\ f.fn = "iid_spin_magnitude_beta"
           => f.ret = Value(independent_spin_magnitude_beta(
                                heap, dataset, f.args[2], f.args[2], f.args[3], f.args[3],
                                f.args[1], f.args[1]).val)
        /\ f.fn = "iid_spin_orientation_gaussian_isotropic"
           => f.ret = Value(independent_spin_orientation_gaussian_isotropic(
                                heap, dataset, f.args[1], f.args[2], f.args[2]).val)

C7_Witness ==
    LET f == frame[Main]
    IN  /\ f.fn = "iid_spin_magnitude_beta" /\ f.pc = "returned"
        /\ f.args[2] > 0 /\ f.args[3] > 0 /\ f.args[2] # f.args[3]
        /\ \E i \in 1..DataLen : f.ret.val.data[i] > 0

\* C8: no step of any call changes an array of the caller's dataset.
C8_DatasetNotMutated ==
    [][\A k \in Keys : heap'[dataset[k]] = heap[dataset[k]]]_vars

C8_Witness ==
    LET f == frame[Main]
    IN  /\ f.fn = EvalFn /\ f.pc = "returned" /\ f.args[5] = 0
        /\ \E i \in 1..DataLen :
              f.ret.val.data[i] > 0 /\ f.ret.val.data[i] # heap[dataset["chi_eff"]].data[i]

\* the heap with no call in progress
Quiet(h) == [ad \in DOMAIN h |-> IF ad[1] = "tmp" THEN None ELSE h[ad]]

\* C9: under every interleaving of the threads' calls on one instance, no step
\* writes the instance (its attributes or the arrays they hold), and a call
\* that has ended has ended as it would have alone.
C9_ConcurrentCallsAreSafe ==
    [][/\ self' = self
       /\ \A a \in Attrs : heap'[SelfAddr(a)] = heap[SelfAddr(a)]
       /\ \A t \in Threads :
             (frame'[t].fn = EvalFn /\ Finished(frame'[t]))
             => frame'[t].ret = Run(Quiet(heap'), self', t, frame'[t].args).f.ret]_vars

C9_Witness ==
    \E t \in Threads, u \in Threads :
        /\ t # u
        /\ frame[t].pc = "returned" /\ frame[t].args[5] = 0
        /\ frame[u].pc = "zero_p" /\ frame[u].args[5] = 0
        /\ \E i \in 1..DataLen : frame[t].ret.val.data[i] > 0

\* C10: the normalization integrates first along the grid's chi_p axis with
\* the chi_p sequence as abscissa, then along the chi_eff axis with the
\* chi_eff sequence, the abscissa being as long as the axis each time.
C10_AbscissaMatchesAxis ==
    \A t \in Threads :
        LET f == frame[t]
        IN  (f.fn = EvalFn /\ Finished(f) /\ f.args[5] # 0)
            => /\ Len(f.integ) = 2
               /\ f.integ[1].axis = "chi_p" /\ f.integ[1].x = "chi_p"
               /\ f.integ[2].axis = "chi_eff" /\ f.integ[2].x = "chi_eff"
               /\ \A i \in DOMAIN f.integ : f.integ[i].axis_len = f.integ[i].x_len

====
